---- MODULE Spec2Model ----
(***************************************************************************)
(* Model of Input::GameController (src/input/controller.cpp): the ring of  *)
(* timestamped controller samples, its per-slot "obtained" flags, the      *)
(* mutators CheckButton / Axis / SetTouchpadState, the readers ReadState / *)
(* ReadStates and the heartbeat Poll.                                      *)
(*                                                                         *)
(* Spec      : any sequence of calls, each running to completion, with the *)
(*             clock and the connection changing in between.               *)
(* InputSpec : any sequence of mutator calls over the full input alphabet. *)
(* ConcSpec  : three threads.  The event thread runs the mutators and the  *)
(*             game thread the readers, each call under m_mutex; the frame *)
(*             thread runs Poll, which takes no lock, statement by         *)
(*             statement.                                                  *)
(* TouchSpec : SetTouchpadState with touchIndex below, inside and above    *)
(*             the touch slots, with ReadStates.                           *)
(* ReconnectSpec : a controller that is disconnected and reconnected, the  *)
(*             mutators being called while it is disconnected.             *)
(***************************************************************************)
EXTENDS Integers, Sequences, FiniteSets

\* ---------------------------------------------------------------- bounds
\* Ring capacity.  controller.h sets it to 64; the model scales it down so
\* that a full and wrapped ring is reached.
MAX_STATES == 2
\* Cap on the number of AddState calls of one behaviour.
MaxPushes == 3
\* Cap on the number of clock steps of one behaviour.
MaxTicks == 1
\* Cap on the number of connect transitions of one behaviour.
MaxConnects == 1

\* ------------------------------------------------------- program constants
\* Poll: diff = (time - t) / 1000; if (diff >= 100)
MicrosPerMilli == 1000
HeartbeatMillis == 100
\* SetTouchpadState: x * 1920, y * 941, stored as u16
TouchWidth == 1920
TouchHeight == 941
\* Poll: return 100
PollInterval == 100

\* One clock step of the environment: 100 ms of process time, in microseconds.
TickMicros == 100 * 1000
MaxTime == MaxTicks * TickMicros
U16(x) == x % 65536

\* ---------------------------------------------------------- input alphabet
\* buttonsState is a bit-field; it is modelled as the set of its set bits.
Buttons == {"Cross", "L2", "R2"}
ButtonMasks == {{"Cross"}, {"L2"}}
Axes == {"LeftX", "TriggerLeft", "TriggerRight"}
AxisValues == {-1, 0, 1}
\* Normalised touch coordinates, in halves of the surface: (0.5, 0.5).
TouchDen == 2
TouchPoints == {<<1, 1>>}
TouchSlots == {0, 1}
\* touchIndex arguments below, inside and above the slots.
TouchIndices == {-1, 0, 2}
\* states_num arguments of ReadStates.
ReadNums == {0, 1, MAX_STATES + 1}
\* The mutator calls of Spec: one press, one trigger pull, one touch.
SpecButtons == {<<{"Cross"}, TRUE>>}
SpecAxes == {<<"TriggerLeft", 1>>}
SpecTouches == {<<0, TRUE, 1, 1>>}

Slots == 0 .. (MAX_STATES - 1)

\* State(): the neutral sample.
DefaultState ==
    [time |-> 0,
     buttonsState |-> {},
     axes |-> [a \in Axes |-> 0],
     touchpad |-> [t \in TouchSlots |-> [state |-> FALSE, x |-> 0, y |-> 0]]]

VARIABLES
    m_connected,        \* bool m_connected
    m_connected_count,  \* int m_connected_count
    m_states,           \* std::array<State, MAX_STATES>
    m_private,          \* std::array<StateInternal, MAX_STATES>: obtained flags
    m_first_state,      \* u32: slot of the oldest buffered sample
    m_states_num,       \* u32: number of buffered samples
    m_last_state,       \* State: copy of the sample pushed last
    now,                \* sceKernelGetProcessTime(), microseconds
    \* history variables (not program state)
    ids,                \* slot -> number of the push that filled it (0: none)
    pushed,             \* every sample pushed so far, in push order
    retSeq,             \* push numbers returned by ReadStates, in return order
    lost,               \* push numbers evicted before ReadStates returned them
    origin,             \* push number -> the call that pushed it and the
                        \* clock at that call
    lastMut,            \* clock value at the last mutator call
    last,               \* the call made last: its arguments, inputs and output
    \* threads (ConcSpec)
    m_mutex,            \* std::mutex m_mutex: "free" or the thread holding it
    pc,                 \* thread -> where it is in its call
    poll_state          \* Poll: the value of GetLastState() it passes on

ring == <<m_states, m_private, m_first_state, m_states_num, m_last_state>>
conn == <<m_connected, m_connected_count>>
hist == <<ids, pushed, retSeq, lost, origin>>
vars == <<m_connected, m_connected_count, m_states, m_private, m_first_state,
          m_states_num, m_last_state, now, ids, pushed, retSeq, lost, origin,
          lastMut, last, m_mutex, pc, poll_state>>
conc == <<m_mutex, pc, poll_state>>
Threads == {"event", "game", "frame"}

\* ------------------------------------------------------------------ helpers
\* Slot of the sample at logical position i, counted from the head.
SlotAt(i) == (m_first_state + i) % MAX_STATES

\* The buffered samples and their push numbers, oldest first.
Buffered == [i \in 1 .. m_states_num |-> m_states[SlotAt(i - 1)]]
BufferedIds == [i \in 1 .. m_states_num |-> ids[SlotAt(i - 1)]]
\* Logical positions of the buffered samples not yet obtained.
Unread == {i \in 0 .. (m_states_num - 1) : ~m_private[SlotAt(i)].obtained}

\* GetLastState reading one slot past the newest sample.
GetLastState_OffByOne ==
    IF m_states_num = 0
    THEN m_last_state
    ELSE m_states[(m_first_state + m_states_num) % MAX_STATES]

\* GameController::GetLastState
GetLastState ==
    IF m_states_num = 0
    THEN m_last_state
    ELSE m_states[(m_first_state + m_states_num - 1) % MAX_STATES]

\* What a step leaves in `last`: the call, its arguments, the samples it
\* returned with their push numbers, whether it pushed, and (ReadStates) the
\* number of unobtained buffered samples it found.
Call(op, args, ret, retIds, didPush, unread) ==
    [op |-> op, args |-> args, ret |-> ret, ids |-> retIds,
     pushed |-> didPush, unread |-> unread]

\* The history kept beside AddState: the slot's previous sample is lost when
\* it is overwritten before ReadStates returned it.
Record(index, state) ==
    /\ pushed' = Append(pushed, state)
    /\ ids' = [ids EXCEPT ![index] = Len(pushed) + 1]
    /\ lost' = IF ids[index] # 0 /\ ~m_private[index].obtained
               THEN lost \cup {ids[index]} ELSE lost

\* AddState without the head advance on a full ring.
AddState_KeepHead(state) ==
    LET full == m_states_num >= MAX_STATES
        num == IF full THEN MAX_STATES - 1 ELSE m_states_num
        index == (m_first_state + num) % MAX_STATES
    IN /\ m_states' = [m_states EXCEPT ![index] = state]
       /\ m_last_state' = state
       /\ m_private' = [m_private EXCEPT ![index] = [obtained |-> FALSE]]
       /\ m_states_num' = num + 1
       /\ m_first_state' = m_first_state
       /\ Record(index, state)

\* AddState without the reset of the slot's obtained flag.
AddState_StaleFlag(state) ==
    LET full == m_states_num >= MAX_STATES
        num == IF full THEN MAX_STATES - 1 ELSE m_states_num
        first == IF full THEN (m_first_state + 1) % MAX_STATES ELSE m_first_state
        index == (first + num) % MAX_STATES
    IN /\ m_states' = [m_states EXCEPT ![index] = state]
       /\ m_last_state' = state
       /\ m_private' = m_private
       /\ m_states_num' = num + 1
       /\ m_first_state' = first
       /\ Record(index, state)

\* AddState that drops the sample while the controller is disconnected.
AddState_ConnectedOnly(state) ==
    LET full == m_states_num >= MAX_STATES
        num == IF full THEN MAX_STATES - 1 ELSE m_states_num
        first == IF full THEN (m_first_state + 1) % MAX_STATES ELSE m_first_state
        index == (first + num) % MAX_STATES
    IN IF m_connected
       THEN /\ m_states' = [m_states EXCEPT ![index] = state]
            /\ m_last_state' = state
            /\ m_private' = [m_private EXCEPT ![index] = [obtained |-> FALSE]]
            /\ m_states_num' = num + 1
            /\ m_first_state' = first
            /\ Record(index, state)
       ELSE UNCHANGED <<ring, ids, pushed, lost>>

\* AddState without the store to m_last_state.
AddState_NoCache(state) ==
    LET full == m_states_num >= MAX_STATES
        num == IF full THEN MAX_STATES - 1 ELSE m_states_num
        first == IF full THEN (m_first_state + 1) % MAX_STATES ELSE m_first_state
        index == (first + num) % MAX_STATES
    IN /\ m_states' = [m_states EXCEPT ![index] = state]
       /\ m_last_state' = m_last_state
       /\ m_private' = [m_private EXCEPT ![index] = [obtained |-> FALSE]]
       /\ m_states_num' = num + 1
       /\ m_first_state' = first
       /\ Record(index, state)

\* AddState that empties a full ring before it stores the sample.
AddState_Restart(state) ==
    LET full == m_states_num >= MAX_STATES
        num == IF full THEN 0 ELSE m_states_num
        first == IF full THEN (m_first_state + 1) % MAX_STATES ELSE m_first_state
        index == (first + num) % MAX_STATES
    IN /\ m_states' = [m_states EXCEPT ![index] = state]
       /\ m_last_state' = state
       /\ m_private' = [m_private EXCEPT ![index] = [obtained |-> FALSE]]
       /\ m_states_num' = num + 1
       /\ m_first_state' = first
       /\ Record(index, state)

\* GameController::AddState
AddState(state) ==
    LET full == m_states_num >= MAX_STATES
        num == IF full THEN MAX_STATES - 1 ELSE m_states_num
        first == IF full THEN (m_first_state + 1) % MAX_STATES ELSE m_first_state
        index == (first + num) % MAX_STATES
    IN /\ m_states' = [m_states EXCEPT ![index] = state]
       /\ m_last_state' = state
       /\ m_private' = [m_private EXCEPT ![index] = [obtained |-> FALSE]]
       /\ m_states_num' = num + 1
       /\ m_first_state' = first
       /\ Record(index, state)

CanPush == Len(pushed) < MaxPushes

\* The history entry of a push made by the call op.
PushedBy(op) ==
    origin' = Append(origin, [op |-> op, at |-> now])

\* ----------------------------------------------------------------- actions
\* GameController::GameController sets m_states_num and m_last_state; the
\* other members take their default member initialisers: connected, head at
\* slot 0, every slot a neutral State with obtained = false.
Init ==
    /\ m_connected = TRUE
    /\ m_connected_count = 0
    /\ m_states = [s \in Slots |-> DefaultState]
    /\ m_private = [s \in Slots |-> [obtained |-> FALSE]]
    /\ m_first_state = 0
    /\ m_states_num = 0
    /\ m_last_state = DefaultState
    /\ now = 0
    /\ ids = [s \in Slots |-> 0]
    /\ pushed = <<>>
    /\ retSeq = <<>>
    /\ lost = {}
    /\ origin = <<>>
    /\ lastMut = 0
    /\ last = Call("new", <<>>, <<>>, <<>>, FALSE, 0)
    /\ m_mutex = "free"
    /\ pc = [t \in Threads |-> "idle"]
    /\ poll_state = DefaultState

\* The process clock advances.
Tick ==
    /\ now < MaxTime
    /\ now' = now + TickMicros
    /\ last' = Call("Tick", <<>>, <<>>, <<>>, FALSE, 0)
    /\ UNCHANGED <<ring, conn, hist, lastMut>>

\* GameController::CheckButton: the sample it pushes.
CheckButtonState(state, button, is_pressed) ==
    [state EXCEPT !.time = now,
                  !.buttonsState = IF is_pressed THEN @ \cup button ELSE @ \ button]

CheckButton(button, is_pressed) ==
    /\ CanPush
    /\ AddState(CheckButtonState(GetLastState, button, is_pressed))
    /\ retSeq' = retSeq
    /\ PushedBy("CheckButton")
    /\ lastMut' = now
    /\ last' = Call("CheckButton", <<button, is_pressed>>, <<>>, <<>>, TRUE, 0)
    /\ UNCHANGED <<conn, now>>

\* Axis with the trigger bits set for value >= 0.
AxisState_GE(state, axis, value) ==
    LET s1 == [state EXCEPT !.time = now, !.axes[axis] = value]
        s2 == IF axis = "TriggerLeft"
              THEN [s1 EXCEPT !.buttonsState =
                        IF value >= 0 THEN @ \cup {"L2"} ELSE @ \ {"L2"}]
              ELSE s1
    IN IF axis = "TriggerRight"
       THEN [s2 EXCEPT !.buttonsState =
                 IF value >= 0 THEN @ \cup {"R2"} ELSE @ \ {"R2"}]
       ELSE s2

\* GameController::Axis: the sample it pushes.  axis is an Input::Axis channel.
AxisState(state, axis, value) ==
    LET s1 == [state EXCEPT !.time = now, !.axes[axis] = value]
        s2 == IF axis = "TriggerLeft"
              THEN [s1 EXCEPT !.buttonsState =
                        IF value > 0 THEN @ \cup {"L2"} ELSE @ \ {"L2"}]
              ELSE s1
    IN IF axis = "TriggerRight"
       THEN [s2 EXCEPT !.buttonsState =
                 IF value > 0 THEN @ \cup {"R2"} ELSE @ \ {"R2"}]
       ELSE s2

Axis(axis, value) ==
    /\ CanPush
    /\ AddState(AxisState(GetLastState, axis, value))
    /\ retSeq' = retSeq
    /\ PushedBy("Axis")
    /\ lastMut' = now
    /\ last' = Call("Axis", <<axis, value>>, <<>>, <<>>, TRUE, 0)
    /\ UNCHANGED <<conn, now>>

\* static_cast<u16>(x * res) for the float x = n / TouchDen.
ScaleTouch(n, res) == U16((n * res) \div TouchDen)

\* GameController::SetTouchpadState: the sample it pushes.
TouchState(state, touchIndex, touchDown, x, y) ==
    [state EXCEPT !.time = now,
                  !.touchpad[touchIndex] =
                      [state |-> touchDown,
                       x |-> ScaleTouch(x, TouchWidth),
                       y |-> ScaleTouch(y, TouchHeight)]]

\* state.touchpad[touchIndex] for a negative touchIndex is an element before
\* the array: the stores of touchDown and of the scaled x and y land on
\* nothing the sample holds, or on an axis of the local sample.
TouchStates(state, touchIndex, touchDown, x, y) ==
    IF touchIndex \in TouchSlots
    THEN {TouchState(state, touchIndex, touchDown, x, y)}
    ELSE LET s == [state EXCEPT !.time = now]
             stored == {IF touchDown THEN 1 ELSE 0,
                        ScaleTouch(x, TouchWidth), ScaleTouch(y, TouchHeight)}
         IN {s} \cup {[s EXCEPT !.axes[a] = v] : a \in Axes, v \in stored}

SetTouchpadState(touchIndex, touchDown, x, y) ==
    IF touchIndex < 2
    THEN /\ CanPush
         /\ \E state \in TouchStates(GetLastState, touchIndex, touchDown, x, y) :
                AddState(state)
         /\ retSeq' = retSeq
         /\ PushedBy("SetTouchpadState")
         /\ lastMut' = now
         /\ last' = Call("SetTouchpadState", <<touchIndex, touchDown, x, y>>,
                         <<>>, <<>>, TRUE, 0)
         /\ UNCHANGED <<conn, now>>
    ELSE /\ last' = Call("SetTouchpadState", <<touchIndex, touchDown, x, y>>,
                         <<>>, <<>>, FALSE, 0)
         /\ UNCHANGED <<ring, conn, hist, now, lastMut>>

\* ReadState that marks the sample it returns as obtained.
ReadState_Consuming ==
    /\ last' = Call("ReadState", <<>>,
                    <<GetLastState, m_connected, m_connected_count>>,
                    <<>>, FALSE, 0)
    /\ m_private' = IF m_states_num = 0 THEN m_private
                    ELSE [m_private EXCEPT
                             ![(m_first_state + m_states_num - 1) % MAX_STATES] =
                                 [obtained |-> TRUE]]
    /\ UNCHANGED <<m_states, m_first_state, m_states_num, m_last_state,
                   conn, hist, now, lastMut>>

\* GameController::ReadState: *state, *isConnected, *connectedCount.
ReadState ==
    /\ last' = Call("ReadState", <<>>,
                    <<GetLastState, m_connected, m_connected_count>>,
                    <<>>, FALSE, 0)
    /\ UNCHANGED <<ring, conn, hist, now, lastMut>>

NoneRead == [priv |-> m_private, ret |-> <<>>, ids |-> <<>>]

\* The for loop of GameController::ReadStates from position i on.  acc holds
\* the obtained flags, the samples copied to states[] and their push numbers.
RECURSIVE ReadLoop(_, _, _)
ReadLoop(i, states_num, acc) ==
    IF i >= m_states_num \/ Len(acc.ret) >= states_num
    THEN acc
    ELSE LET index == (m_first_state + i) % MAX_STATES
         IN IF ~acc.priv[index].obtained
            THEN ReadLoop(i + 1, states_num,
                          [priv |-> [acc.priv EXCEPT ![index] = [obtained |-> TRUE]],
                           ret |-> Append(acc.ret, m_states[index]),
                           ids |-> Append(acc.ids, ids[index])])
            ELSE ReadLoop(i + 1, states_num, acc)

\* Variants of the loop: one that leaves the obtained flag unset, one that
\* walks the ring from the newest sample to the oldest.
RECURSIVE LoopVariant(_, _, _, _, _)
LoopVariant(i, states_num, acc, mark, newestFirst) ==
    IF i >= m_states_num \/ Len(acc.ret) >= states_num
    THEN acc
    ELSE LET pos == IF newestFirst THEN m_states_num - 1 - i ELSE i
             index == (m_first_state + pos) % MAX_STATES
         IN IF ~acc.priv[index].obtained
            THEN LoopVariant(i + 1, states_num,
                             [priv |-> [acc.priv EXCEPT ![index] = [obtained |-> mark]],
                              ret |-> Append(acc.ret, m_states[index]),
                              ids |-> Append(acc.ids, ids[index])],
                             mark, newestFirst)
            ELSE LoopVariant(i + 1, states_num, acc, mark, newestFirst)

\* ReadStates without the test of m_connected.
ReadStatesOut_NoConnTest(states_num) ==
    IF m_states_num = 0
    THEN [priv |-> m_private, ret |-> <<m_last_state>>, ids |-> <<>>]
    ELSE ReadLoop(0, states_num, NoneRead)

\* ReadStates that never sets the obtained flag.
ReadStatesOut_NoMark(states_num) ==
    IF m_connected
    THEN IF m_states_num = 0
         THEN [priv |-> m_private, ret |-> <<m_last_state>>, ids |-> <<>>]
         ELSE LoopVariant(0, states_num, NoneRead, FALSE, FALSE)
    ELSE NoneRead

\* ReadStates that copies the newest sample first.
ReadStatesOut_NewestFirst(states_num) ==
    IF m_connected
    THEN IF m_states_num = 0
         THEN [priv |-> m_private, ret |-> <<m_last_state>>, ids |-> <<>>]
         ELSE LoopVariant(0, states_num, NoneRead, TRUE, TRUE)
    ELSE NoneRead

\* ReadStates without the m_states_num == 0 branch.
ReadStatesOut_NoEcho(states_num) ==
    IF m_connected
    THEN ReadLoop(0, states_num, NoneRead)
    ELSE NoneRead

\* GameController::ReadStates: the new flags, the samples written to
\* states[0 .. ret_num-1] and their push numbers.
ReadStatesOut(states_num) ==
    IF m_connected
    THEN IF m_states_num = 0
         THEN [priv |-> m_private, ret |-> <<m_last_state>>, ids |-> <<>>]
         ELSE ReadLoop(0, states_num, NoneRead)
    ELSE NoneRead

ReadStates(states_num) ==
    LET out == ReadStatesOut(states_num)
    IN /\ m_private' = out.priv
       /\ retSeq' = retSeq \o out.ids
       /\ last' = Call("ReadStates", <<states_num>>, out.ret, out.ids, FALSE,
                       Cardinality(Unread))
       /\ UNCHANGED <<m_states, m_first_state, m_states_num, m_last_state,
                      conn, now, ids, pushed, lost, origin, lastMut>>

\* Poll without the test of the newest sample's obtained flag.
PollPushes_NoObtainedTest ==
    /\ m_connected
    /\ IF m_states_num = 0
       THEN (now - m_last_state.time) \div MicrosPerMilli >= HeartbeatMillis
       ELSE LET index == (m_first_state - 1 + m_states_num) % MAX_STATES
                diff == (now - m_states[index].time) \div MicrosPerMilli
            IN diff >= HeartbeatMillis

\* Poll without the test of m_connected.
PollPushes_NoConnTest ==
    IF m_states_num = 0
    THEN (now - m_last_state.time) \div MicrosPerMilli >= HeartbeatMillis
    ELSE LET index == (m_first_state - 1 + m_states_num) % MAX_STATES
             diff == (now - m_states[index].time) \div MicrosPerMilli
         IN m_private[index].obtained /\ diff >= HeartbeatMillis

\* GameController::Poll: whether the heartbeat pushes.  In the else branch
\* m_states_num >= 1, so the u32 sum m_first_state - 1 + m_states_num does
\* not wrap.
PollPushes ==
    /\ m_connected
    /\ IF m_states_num = 0
       THEN (now - m_last_state.time) \div MicrosPerMilli >= HeartbeatMillis
       ELSE LET index == (m_first_state - 1 + m_states_num) % MAX_STATES
                diff == (now - m_states[index].time) \div MicrosPerMilli
            IN m_private[index].obtained /\ diff >= HeartbeatMillis

\* GameController::Poll, run without interruption.
Poll ==
    /\ IF PollPushes
       THEN /\ CanPush
            /\ AddState(GetLastState)
            /\ retSeq' = retSeq
            /\ PushedBy("Poll")
       ELSE UNCHANGED <<ring, hist>>
    /\ last' = Call("Poll", <<>>, <<PollInterval>>, <<>>, PollPushes, 0)
    /\ UNCHANGED <<conn, now, lastMut>>

\* GameController::Poll on the frame thread, which takes no lock: the tests
\* of m_connected, m_states_num, the sample's age and its obtained flag ...
PollCheck ==
    /\ pc["frame"] = "idle"
    /\ IF PollPushes
       THEN /\ CanPush
            /\ pc' = [pc EXCEPT !["frame"] = "get"]
            /\ last' = last
       ELSE /\ pc' = pc
            /\ last' = Call("Poll", <<>>, <<PollInterval>>, <<>>, FALSE, 0)
    /\ UNCHANGED <<ring, conn, hist, now, lastMut, m_mutex, poll_state>>

\* ... the evaluation of the argument GetLastState() ...
PollGet ==
    /\ pc["frame"] = "get"
    /\ poll_state' = GetLastState
    /\ pc' = [pc EXCEPT !["frame"] = "add"]
    /\ UNCHANGED <<ring, conn, hist, now, lastMut, last, m_mutex>>

\* ... and the call of AddState.
PollAdd ==
    /\ pc["frame"] = "add"
    /\ AddState(poll_state)
    /\ retSeq' = retSeq
    /\ PushedBy("Poll")
    /\ pc' = [pc EXCEPT !["frame"] = "idle"]
    /\ last' = Call("Poll", <<>>, <<PollInterval>>, <<>>, TRUE, 0)
    /\ UNCHANGED <<conn, now, lastMut, m_mutex, poll_state>>

\* std::scoped_lock lock{m_mutex} on entry of a call of thread t.
Acquire(t) ==
    /\ pc[t] = "idle"
    /\ m_mutex = "free"
    /\ m_mutex' = t
    /\ pc' = [pc EXCEPT ![t] = "locked"]
    /\ UNCHANGED <<ring, conn, hist, now, lastMut, last, poll_state>>

\* Thread t is in the body of a call, under the lock.
Holds(t) == pc[t] = "locked" /\ m_mutex = t

\* The end of the lock's scope, at the return of the call of thread t.
Release(t) ==
    /\ m_mutex' = "free"
    /\ pc' = [pc EXCEPT ![t] = "idle"]
    /\ poll_state' = poll_state

\* m_connected and m_connected_count are written outside controller.cpp, on
\* the connection transitions of the controller.
Connect ==
    /\ ~m_connected
    /\ m_connected_count < MaxConnects
    /\ m_connected' = TRUE
    /\ m_connected_count' = m_connected_count + 1
    /\ last' = Call("Connect", <<>>, <<>>, <<>>, FALSE, 0)
    /\ UNCHANGED <<ring, hist, now, lastMut>>

Disconnect ==
    /\ m_connected
    /\ m_connected' = FALSE
    /\ last' = Call("Disconnect", <<>>, <<>>, <<>>, FALSE, 0)
    /\ UNCHANGED <<m_connected_count, ring, hist, now, lastMut>>

\* ------------------------------------------------------------ specifications
\* Calls made one after the other, each from its entry to its return with
\* no other thread in between.
DoTick == Tick /\ UNCHANGED conc
DoCheckButton(button, is_pressed) ==
    CheckButton(button, is_pressed) /\ UNCHANGED conc
DoAxis(axis, value) == Axis(axis, value) /\ UNCHANGED conc
DoSetTouchpadState(touchIndex, touchDown, x, y) ==
    SetTouchpadState(touchIndex, touchDown, x, y) /\ UNCHANGED conc
DoReadState == ReadState /\ UNCHANGED conc
DoReadStates(states_num) == ReadStates(states_num) /\ UNCHANGED conc
DoPoll == Poll /\ UNCHANGED conc
DoConnect == Connect /\ UNCHANGED conc
DoDisconnect == Disconnect /\ UNCHANGED conc

Next ==
    \/ DoTick
    \/ \E c \in SpecButtons : DoCheckButton(c[1], c[2])
    \/ \E c \in SpecAxes : DoAxis(c[1], c[2])
    \/ \E c \in SpecTouches : DoSetTouchpadState(c[1], c[2], c[3], c[4])
    \/ DoReadState
    \/ \E n \in ReadNums : DoReadStates(n)
    \/ DoPoll
    \/ DoConnect
    \/ DoDisconnect

Spec == Init /\ [][Next]_vars

\* The mutators over the full input alphabet.
InputNext ==
    \/ DoTick
    \/ \E b \in ButtonMasks, p \in BOOLEAN : DoCheckButton(b, p)
    \/ \E a \in Axes, v \in AxisValues : DoAxis(a, v)
    \/ \E t \in TouchSlots, d \in BOOLEAN, xy \in TouchPoints :
          DoSetTouchpadState(t, d, xy[1], xy[2])

InputSpec == Init /\ [][InputNext]_vars

\* The three threads.  Every call but Poll takes m_mutex on entry.
EventCheckButton(button, is_pressed) ==
    Holds("event") /\ CheckButton(button, is_pressed) /\ Release("event")
EventAxis(axis, value) ==
    Holds("event") /\ Axis(axis, value) /\ Release("event")
EventSetTouchpadState(touchIndex, touchDown, x, y) ==
    /\ Holds("event")
    /\ SetTouchpadState(touchIndex, touchDown, x, y)
    /\ Release("event")
GameReadState == Holds("game") /\ ReadState /\ Release("game")
GameReadStates(states_num) ==
    Holds("game") /\ ReadStates(states_num) /\ Release("game")

ConcNext ==
    \/ DoTick
    \/ \E t \in {"event", "game"} : Acquire(t)
    \/ \E c \in SpecButtons : EventCheckButton(c[1], c[2])
    \/ \E c \in SpecAxes : EventAxis(c[1], c[2])
    \/ \E c \in SpecTouches : EventSetTouchpadState(c[1], c[2], c[3], c[4])
    \/ GameReadState
    \/ \E n \in ReadNums : GameReadStates(n)
    \/ PollCheck
    \/ PollGet
    \/ PollAdd

ConcSpec == Init /\ [][ConcNext]_vars

\* SetTouchpadState with touchIndex in and out of range, with the reader.
TouchNext ==
    \/ \E i \in TouchIndices, xy \in TouchPoints :
          DoSetTouchpadState(i, TRUE, xy[1], xy[2])
    \/ DoReadStates(MAX_STATES + 1)

TouchSpec == Init /\ [][TouchNext]_vars

\* A controller that loses its connection and gets it back, with every
\* mutator call made while it is disconnected.
OfflineCheckButton(button, is_pressed) ==
    ~m_connected /\ CheckButton(button, is_pressed) /\ UNCHANGED conc
OfflineAxis(axis, value) ==
    ~m_connected /\ Axis(axis, value) /\ UNCHANGED conc
OfflineSetTouchpadState(touchIndex, touchDown, x, y) ==
    /\ ~m_connected
    /\ SetTouchpadState(touchIndex, touchDown, x, y)
    /\ UNCHANGED conc

ReconnectNext ==
    \/ DoDisconnect
    \/ \E b \in ButtonMasks, p \in BOOLEAN : OfflineCheckButton(b, p)
    \/ \E c \in SpecAxes : OfflineAxis(c[1], c[2])
    \/ \E c \in SpecTouches : OfflineSetTouchpadState(c[1], c[2], c[3], c[4])
    \/ DoConnect
    \/ \E n \in ReadNums : DoReadStates(n)

ReconnectSpec == Init /\ [][ReconnectNext]_vars

\* ------------------------------------------------------------------ claims
Min(a, b) == IF a < b THEN a ELSE b
Range(f) == {f[i] : i \in DOMAIN f}
NPushed == Len(pushed)
\* The sample pushed last and the latest sample before that push.
Newest == pushed[NPushed]
Previous == IF NPushed >= 2 THEN pushed[NPushed - 1] ELSE DefaultState
Mutators == {"CheckButton", "Axis", "SetTouchpadState"}

\* C1 (ring bound): after every call 0 <= m_states_num <= MAX_STATES, and
\* the buffered samples read from the head are exactly the last
\* min(pushes, MAX_STATES) samples pushed, in push order: on a full ring each
\* push evicts the oldest sample and nothing else.
C1_RingBound ==
    /\ m_states_num \in 0 .. MAX_STATES
    /\ m_first_state \in Slots
    /\ m_states_num = Min(NPushed, MAX_STATES)
    /\ Buffered = [i \in 1 .. m_states_num |-> pushed[NPushed - m_states_num + i]]
    /\ BufferedIds = [i \in 1 .. m_states_num |-> NPushed - m_states_num + i]

\* A push on a full ring has evicted the oldest sample.
C1_Witness ==
    /\ NPushed > MAX_STATES
    /\ m_states_num = MAX_STATES
    /\ m_first_state # 0
    /\ last.pushed

\* C2 as stated: no sample is returned twice, and a ReadStates call (with
\* room for at least one sample) that finds every buffered sample already
\* returned (connected) returns 0 samples.
C2_Original ==
    /\ Cardinality(Range(retSeq)) = Len(retSeq)
    /\ (last.op = "ReadStates" /\ m_connected /\ last.unread = 0
        /\ last.args[1] >= 1)
          => Len(last.ret) = 0

\* C2 (no double consumption), amended: no pushed sample is returned twice,
\* and once at least one sample has been pushed, a ReadStates call that finds
\* every buffered sample already returned (connected) returns 0 samples,
\* whatever states_num is.
C2_NoDoubleConsumption ==
    /\ Cardinality(Range(retSeq)) = Len(retSeq)
    /\ (last.op = "ReadStates" /\ m_connected /\ last.unread = 0
        /\ m_states_num > 0)
          => Len(last.ret) = 0

\* A drained, non-empty ring read again with a large states_num.
C2_Witness ==
    /\ last.op = "ReadStates"
    /\ m_connected
    /\ last.unread = 0
    /\ m_states_num = MAX_STATES
    /\ last.args[1] > MAX_STATES
    /\ Len(retSeq) >= MAX_STATES

\* C3 (no missed transition without overflow): every pushed sample is in
\* exactly one of three conditions: returned by ReadStates, still buffered and
\* unobtained, or evicted while unobtained.  A connected ReadStates on a
\* non-empty ring returns min(states_num, unobtained) samples, the oldest
\* unobtained ones, and leaves the rest unobtained.  Hence with nothing lost
\* and nothing left unobtained, every pushed sample has been returned once.
C3_NoMissedTransition ==
    LET returned == Range(retSeq)
        waiting == {BufferedIds[i + 1] : i \in Unread}
        fetched == {BufferedIds[i + 1] : i \in (0 .. (m_states_num - 1)) \ Unread}
    IN /\ returned \cup waiting \cup lost = 1 .. NPushed
       /\ returned \cap waiting = {}
       /\ returned \cap lost = {}
       /\ waiting \cap lost = {}
       /\ fetched \subseteq returned
       /\ (last.op = "ReadStates" /\ m_connected /\ m_states_num > 0) =>
             /\ Len(last.ids) = Min(last.args[1], last.unread)
             /\ Cardinality(Unread) = last.unread - Len(last.ids)
             /\ \A i \in DOMAIN last.ids : \A w \in waiting : last.ids[i] < w
       /\ (lost = {} /\ Unread = {}) =>
             /\ returned = 1 .. NPushed
             /\ Len(retSeq) = NPushed

\* A ReadStates limited by states_num returned the oldest unobtained sample
\* and left a newer one, and an earlier sample was evicted unobtained.
C3_Witness ==
    /\ last.op = "ReadStates"
    /\ m_connected
    /\ last.args[1] = 1
    /\ last.unread = 2
    /\ Len(last.ids) = 1
    /\ Cardinality(Unread) = 1
    /\ lost # {}

\* C4 (order preservation): the samples returned by ReadStates, within one
\* call and across calls, come in push order, they are the samples that were
\* pushed, and their timestamps never decrease.
C4_OrderPreservation ==
    /\ \A i, j \in DOMAIN retSeq :
          i < j => /\ retSeq[i] < retSeq[j]
                   /\ pushed[retSeq[i]].time <= pushed[retSeq[j]].time
    /\ (last.op = "ReadStates" /\ last.ids # <<>>) =>
          /\ Len(last.ret) = Len(last.ids)
          /\ \A i \in DOMAIN last.ids : last.ret[i] = pushed[last.ids[i]]
          /\ \A i \in DOMAIN last.ids :
                retSeq[Len(retSeq) - Len(last.ids) + i] = last.ids[i]

\* One call returned two samples, after an earlier call had returned one,
\* and a heartbeat sample is among those returned.
C4_Witness ==
    /\ last.op = "ReadStates"
    /\ Len(last.ids) >= 2
    /\ Len(retSeq) > Len(last.ids)
    /\ \E i \in DOMAIN retSeq :
          retSeq[i] >= 2 /\ pushed[retSeq[i]] = pushed[retSeq[i] - 1]

C6_HeartbeatRefresh ==
    (last.op = "Poll" /\ m_connected
     /\ (now - lastMut) \div MicrosPerMilli >= HeartbeatMillis)
       => /\ last.pushed
          /\ Newest.buttonsState = Previous.buttonsState
          /\ Newest.axes = Previous.axes
          /\ Newest.touchpad = Previous.touchpad
          /\ Newest.time > Previous.time

\* C7 (disconnected short-circuit): while m_connected is false ReadStates
\* returns no sample and obtains none, whatever is buffered.
C7_DisconnectedShortCircuit ==
    (last.op = "ReadStates" /\ ~m_connected)
       => /\ last.ret = <<>>
          /\ last.ids = <<>>
          /\ Cardinality(Unread) = last.unread

\* ReadStates with room for every sample, disconnected, on a ring holding
\* both obtained and unobtained samples.
C7_Witness ==
    /\ last.op = "ReadStates"
    /\ ~m_connected
    /\ last.args[1] > MAX_STATES
    /\ Unread # {}
    /\ Cardinality(Unread) < m_states_num

\* C9 (state copy-forward): the sample a mutator pushes is the latest sample,
\* and it equals the previous latest sample in every field but the timestamp
\* and the field the mutator targets: CheckButton changes only the bits of
\* its mask, Axis only its channel (and, for a trigger, that trigger's bit),
\* SetTouchpadState only its touch slot.  This holds on an empty, a partly
\* filled and a wrapped ring.
C9_CopyForward ==
    (last.op \in Mutators) =>
       /\ GetLastState = Newest
       /\ Newest.time = now
       /\ last.op = "CheckButton" =>
             /\ Newest.axes = Previous.axes
             /\ Newest.touchpad = Previous.touchpad
             /\ Newest.buttonsState \ last.args[1]
                   = Previous.buttonsState \ last.args[1]
             /\ last.args[2] => last.args[1] \subseteq Newest.buttonsState
             /\ ~last.args[2] => last.args[1] \cap Newest.buttonsState = {}
       /\ last.op = "Axis" =>
             /\ Newest.axes[last.args[1]] = last.args[2]
             /\ \A a \in Axes \ {last.args[1]} : Newest.axes[a] = Previous.axes[a]
             /\ Newest.touchpad = Previous.touchpad
             /\ Newest.buttonsState \ {"L2", "R2"}
                   = Previous.buttonsState \ {"L2", "R2"}
       /\ last.op = "SetTouchpadState" =>
             /\ Newest.axes = Previous.axes
             /\ Newest.buttonsState = Previous.buttonsState
             /\ Newest.touchpad[last.args[1]].state = last.args[2]
             /\ \A t \in TouchSlots \ {last.args[1]} :
                   Newest.touchpad[t] = Previous.touchpad[t]

\* Axis, then CheckButton(bit, true) on a wrapped ring: the latest sample
\* carries the axis value, the button and an earlier touch.
C9_Witness ==
    /\ last.op = "CheckButton"
    /\ last.args = <<{"Cross"}, TRUE>>
    /\ NPushed > MAX_STATES
    /\ GetLastState.axes["LeftX"] = 1
    /\ Previous.axes["LeftX"] = 1
    /\ "Cross" \notin Previous.buttonsState
    /\ "Cross" \in GetLastState.buttonsState
    /\ GetLastState.touchpad[1].state

\* C10 (trigger as button): after Axis(TriggerLeft, v) the latest sample has
\* L2 set if v > 0 and cleared if v <= 0, likewise R2 for TriggerRight; every
\* other button bit is as in the previous latest sample, and Axis on another
\* channel changes no button bit.
C10_TriggerAsButton ==
    (last.op = "Axis") =>
       LET axis == last.args[1]
           value == last.args[2]
           bit == IF axis = "TriggerLeft" THEN {"L2"}
                  ELSE IF axis = "TriggerRight" THEN {"R2"} ELSE {}
       IN /\ GetLastState = Newest
          /\ (value > 0) => bit \subseteq Newest.buttonsState
          /\ (value <= 0) => bit \cap Newest.buttonsState = {}
          /\ Newest.buttonsState \ bit = Previous.buttonsState \ bit

\* Axis(TriggerLeft, 0) cleared L2 and kept Cross.
C10_Witness ==
    /\ last.op = "Axis"
    /\ last.args = <<"TriggerLeft", 0>>
    /\ Previous.buttonsState = {"Cross", "L2"}
    /\ GetLastState.buttonsState = {"Cross"}

\* C8 (lock discipline) as stated: a thread that is inside a call touching
\* the ring, m_last_state or the connection fields holds m_mutex; and the
\* calls are serialisable: as in every serial order, the sample a heartbeat
\* pushes is a copy of the sample pushed just before it.
C8_LockDiscipline ==
    /\ \A t \in Threads : pc[t] # "idle" => m_mutex = t
    /\ (last.op = "Poll" /\ last.pushed) => Newest = Previous

\* C11 (out-of-range touch slot) as stated: a SetTouchpadState call whose
\* touchIndex is outside {0, 1}, above or below, pushes no sample and leaves
\* the ring, the obtained flags and m_last_state as they were.
C11_OutOfRangeNoOp ==
    [][(last'.op = "SetTouchpadState" /\ last'.args[1] \notin TouchSlots)
          => /\ ~last'.pushed
             /\ UNCHANGED ring]_vars

\* C12 (ReadState): ReadState returns the sample pushed last (the neutral
\* State before any push) with m_connected and m_connected_count, and changes
\* nothing: the obtained flags, the head, the count, the samples and
\* m_last_state stay as they were, so ReadStates returns after it what it
\* would have returned without it.
C12_ReadStateNoSideEffect ==
    [][(last'.op = "ReadState")
          => /\ last'.ret = <<IF NPushed = 0 THEN DefaultState ELSE Newest,
                               m_connected, m_connected_count>>
             /\ UNCHANGED <<ring, conn, hist>>
             /\ \A n \in ReadNums : ReadStatesOut(n)' = ReadStatesOut(n)]_vars

\* ReadState on a reconnected controller whose wrapped ring holds an
\* obtained sample and, as its newest, an unobtained one.
C12_Witness ==
    /\ last.op = "ReadState"
    /\ m_connected_count = 1
    /\ m_connected
    /\ NPushed > MAX_STATES
    /\ Unread = {m_states_num - 1}
    /\ last.ret[1] = Newest

\* The push numbers of the samples pushed by Poll.
Heartbeats == {k \in DOMAIN origin : origin[k].op = "Poll"}

\* C13 (heartbeat gating): on a non-empty ring a Poll call pushes only if
\* the newest buffered sample has been returned by ReadStates and the clock is
\* 100 ms or more past that sample's timestamp; when the newest sample is
\* unobtained, or less than 100 ms old, Poll changes nothing.  Hence between
\* two samples pushed by Poll a ReadStates call has returned a sample: Poll
\* calls with no ReadStates between them add at most one sample.
C13_HeartbeatGating ==
    /\ [][(last'.op = "Poll" /\ m_states_num > 0) =>
             LET consumed == NPushed \in Range(retSeq)
                 age == now - Newest.time
             IN /\ last'.pushed => (consumed /\ age >= 100 * 1000)
                /\ (~consumed \/ age < 100 * 1000) =>
                      (~last'.pushed /\ UNCHANGED <<ring, hist>>)]_vars
    /\ [](\A a, b \in Heartbeats :
             a < b => \E k \in a .. (b - 1) : k \in Range(retSeq))

\* Poll has pushed a second heartbeat, after a ReadStates call returned the
\* first one, on a ring that a mutator had filled before.
C13_Witness ==
    /\ last.op = "Poll"
    /\ last.pushed
    /\ NPushed >= 3
    /\ origin[NPushed - 1].op = "Poll"
    /\ origin[NPushed - 2].op \in Mutators
    /\ (NPushed - 1) \in Range(retSeq)

\* C14 (Poll while disconnected): a Poll call made while m_connected is
\* false pushes nothing and leaves the ring, the obtained flags and
\* m_last_state unchanged, however old the newest sample is; and every Poll
\* call, connected or not, pushing or not, returns 100.
C14_PollDisconnected ==
    [][(last'.op = "Poll")
          => /\ last'.ret = <<100>>
             /\ ~m_connected => (~last'.pushed /\ UNCHANGED <<ring, hist>>)]_vars

\* Poll on a disconnected controller whose newest sample is obtained and
\* 100 ms old: connected, this call would have pushed.
C14_Witness ==
    /\ last.op = "Poll"
    /\ ~m_connected
    /\ ~last.pushed
    /\ NPushed >= 1
    /\ NPushed \in Range(retSeq)
    /\ now - Newest.time >= 100 * 1000

\* C15 (mutators while disconnected): a mutator called while m_connected is
\* false pushes its sample like any other: the count stays within
\* 1 .. MAX_STATES, the ring holds the last samples pushed, the new sample is
\* the latest one and unobtained, and it differs from the previous latest
\* sample only in its timestamp and the mutator's field.  No ReadStates call
\* returns anything until the controller is connected; then ReadStates
\* returns the samples that were not evicted, oldest first, each once.
C15_DisconnectedMutators ==
    LET returned == Range(retSeq)
        waiting == {BufferedIds[i + 1] : i \in Unread}
    IN /\ NPushed = Len(origin)
       /\ m_states_num = Min(NPushed, MAX_STATES)
       /\ Buffered = [i \in 1 .. m_states_num |-> pushed[NPushed - m_states_num + i]]
       /\ (last.op \in Mutators /\ ~m_connected) =>
             /\ origin[NPushed].op = last.op
             /\ GetLastState = Newest
             /\ m_last_state = Newest
             /\ (m_states_num - 1) \in Unread
             /\ last.op # "Axis" => Newest.axes = Previous.axes
             /\ last.op # "SetTouchpadState" => Newest.touchpad = Previous.touchpad
             /\ last.op = "CheckButton" =>
                   /\ Newest.buttonsState \ last.args[1]
                         = Previous.buttonsState \ last.args[1]
                   /\ (last.args[1] \subseteq Newest.buttonsState) = last.args[2]
             /\ last.op = "SetTouchpadState" =>
                   Newest.buttonsState = Previous.buttonsState
       /\ (last.op = "ReadStates" /\ ~m_connected) =>
             (last.ret = <<>> /\ last.ids = <<>>)
       /\ returned \cup waiting \cup lost = 1 .. NPushed
       /\ Cardinality(returned) = Len(retSeq)
       /\ (last.op = "ReadStates" /\ m_connected /\ m_states_num > 0) =>
             /\ Len(last.ids) = Min(last.args[1], last.unread)
             /\ \A i \in DOMAIN last.ids : last.ret[i] = pushed[last.ids[i]]
             /\ \A i, j \in DOMAIN last.ids : i < j => last.ids[i] < last.ids[j]
             /\ \A i \in DOMAIN last.ids : \A w \in waiting : last.ids[i] < w

\* Three samples were pushed while disconnected, the first was evicted, and
\* after the reconnection one ReadStates call returned the other two in
\* push order.
C15_Witness ==
    /\ m_connected
    /\ m_connected_count = 1
    /\ last.op = "ReadStates"
    /\ NPushed = MAX_STATES + 1
    /\ lost = {1}
    /\ last.ids = [i \in 1 .. MAX_STATES |-> i + 1]
    /\ last.ret = [i \in 1 .. MAX_STATES |-> pushed[i + 1]]

\* C16 (cached last-known sample): in every state m_last_state is the sample
\* pushed last, the neutral State before any push; when the ring is not
\* empty it is also the sample at logical position head + count - 1, so both
\* branches of GetLastState give the same value.
C16_CachedLastState ==
    /\ m_last_state = IF NPushed = 0 THEN DefaultState ELSE Newest
    /\ m_states_num > 0 =>
          m_last_state = m_states[(m_first_state + m_states_num - 1) % MAX_STATES]
    /\ GetLastState = m_last_state

\* A wrapped ring whose newest sample, pushed by a mutator after a
\* heartbeat, differs from the neutral State and from the sample before it.
C16_Witness ==
    /\ NPushed > MAX_STATES
    /\ m_first_state # 0
    /\ last.op \in Mutators
    /\ origin[NPushed - 1].op = "Poll"
    /\ m_last_state # DefaultState
    /\ m_last_state # Previous

\* The input fields of a sample: everything but its timestamp.
Inputs(state) ==
    [buttonsState |-> state.buttonsState, axes |-> state.axes,
     touchpad |-> state.touchpad]
MutatorPushes == {k \in DOMAIN origin : origin[k].op \in Mutators}

\* C17 (hardware events survive a concurrent heartbeat) as stated: under
\* every interleaving of Poll with the mutators, a sample pushed by Poll
\* carries the input fields of the sample pushed just before it, so the
\* latest sample always carries the input fields of the sample that the most
\* recent completed mutator call pushed: no heartbeat re-installs an older
\* state.
C17_EventsSurviveHeartbeat ==
    /\ \A k \in Heartbeats :
          Inputs(pushed[k]) = Inputs(IF k = 1 THEN DefaultState ELSE pushed[k - 1])
    /\ \A m \in MutatorPushes :
          (\A k \in MutatorPushes : k <= m) => Inputs(GetLastState) = Inputs(pushed[m])

\* C18 (output bound) as stated: for every states_num >= 0 a ReadStates call
\* writes and counts at most states_num entries, on every path, the empty
\* ring of a connected controller and states_num = 0 included.
C18_OutputBound ==
    (last.op = "ReadStates") => Len(last.ret) <= last.args[1]

\* C19 (heartbeat pacing) as stated: two samples pushed by Poll with no
\* mutator push between them are 100 ms or more of clock time apart,
\* whatever ReadStates calls are made in between.
C19_HeartbeatPacing ==
    \A a, b \in Heartbeats :
       (a < b /\ \A k \in a .. b : k \in Heartbeats)
          => origin[b].at - origin[a].at >= 100 * 1000

\* C20 (count is monotone): no call lowers m_states_num: ReadStates leaves
\* it alone and a push on a full ring leaves it at MAX_STATES.  So the count
\* is 0 exactly until the first push, and the m_states_num == 0 branch of
\* ReadStates (one entry returned that is no buffered sample) is taken only
\* before the first push.
C20_CountMonotone ==
    /\ [][m_states_num' >= m_states_num]_vars
    /\ [][last'.op = "ReadStates" => m_states_num' = m_states_num]_vars
    /\ []((m_states_num = 0) = (NPushed = 0))
    /\ []((last.op = "ReadStates" /\ last.ret # <<>> /\ last.ids = <<>>)
            => NPushed = 0)

\* A ring that was full, took one more push and was then drained by
\* ReadStates: the count is still MAX_STATES.
C20_Witness ==
    /\ last.op = "ReadStates"
    /\ NPushed > MAX_STATES
    /\ Len(last.ids) >= 1
    /\ Unread = {}
    /\ m_states_num = MAX_STATES
====
